---------------------------- MODULE Spec2Model ----------------------------
(***************************************************************************)
(* Model of the Madvognen weekly-menu sensor                               *)
(* (custom_components/madvognen/sensor.py): the week selector, the per-day *)
(* fetch and parse, the week aggregation pass and the update cycle with    *)
(* its retention policy.                                                   *)
(*                                                                         *)
(* Representation.  A datetime.date is its proleptic Gregorian ordinal     *)
(* (date.toordinal()), so timedelta arithmetic is integer arithmetic and   *)
(* weekday() is (ordinal + 6) % 7.  Python strings are TLA+ strings; an    *)
(* optional value (None or a value) is a sequence of length 0 or 1.  A     *)
(* dict is a function on its keys.  A dish name is a sequence of           *)
(* one-character strings so that strip() can be computed.                  *)
(***************************************************************************)
EXTENDS Integers, Sequences, FiniteSets, TLC

\* ------------------------------------------------------------- bounds

\* The calendar window the clock is drawn from: NumDays consecutive dates
\* starting at ordinal FirstDay (739425 is Monday 2025-06-23; the window
\* crosses the June/July boundary).
FirstDay == 739425
NumDays == 14

\* ----------------------------------------------------- dates and strings

None == <<>>
Some(v) == <<v>>

DaysInMonth == <<31, 28, 31, 30, 31, 30, 31, 31, 30, 31, 30, 31>>

\* The days of a common year before the first of month m.
DaysBeforeMonth(m) == <<0, 31, 59, 90, 120, 151, 181, 212, 243, 273, 304, 334>>[m]

\* datetime.date: the (year, month, day) of an ordinal, as CPython's
\* _ord2ymd computes it (400/100/4/1-year cycles, then the month estimate).
Ord2Ymd(ordinal) ==
    LET n0 == ordinal - 1
        n400 == n0 \div 146097
        r400 == n0 % 146097
        n100 == r400 \div 36524
        r100 == r400 % 36524
        n4 == r100 \div 1461
        r4 == r100 % 1461
        n1 == r4 \div 365
        n == r4 % 365
        year == n400 * 400 + 1 + n100 * 100 + n4 * 4 + n1
        leap == n1 = 3 /\ (n4 # 24 \/ n100 = 3)
        m0 == (n + 50) \div 32
        p0 == DaysBeforeMonth(m0) + (IF m0 > 2 /\ leap THEN 1 ELSE 0)
        month == IF p0 > n THEN m0 - 1 ELSE m0
        preceding == IF p0 > n
                     THEN p0 - (DaysInMonth[month] + (IF month = 2 /\ leap THEN 1 ELSE 0))
                     ELSE p0
    IN  IF n1 = 4 \/ n100 = 4
        THEN [year |-> year - 1, month |-> 12, day |-> 31]
        ELSE [year |-> year, month |-> month, day |-> n - preceding + 1]

\* The ordinal of January 1st of a year (datetime._ymd2ord)
YearStart(year) ==
    LET y == year - 1
    IN  y * 365 + y \div 4 - y \div 100 + y \div 400 + 1

\* date.weekday(): 0 = Monday .. 6 = Sunday.
Weekday(d) == (d + 6) % 7

\* "%02d"
Pad2(n) == IF n < 10 THEN "0" \o ToString(n) ELSE ToString(n)

\* date.strftime("%Y-%m-%d"), also date.isoformat()
IsoDate(d) ==
    LET ymd == Ord2Ymd(d)
    IN  ToString(ymd.year) \o "-" \o Pad2(ymd.month) \o "-" \o Pad2(ymd.day)

DANISH_MONTHS ==
    <<"januar", "februar", "marts", "april", "maj", "juni", "juli", "august",
      "september", "oktober", "november", "december">>

EnglishMonths ==
    <<"January", "February", "March", "April", "May", "June", "July", "August",
      "September", "October", "November", "December">>

EnglishMonthsShort ==
    <<"Jan", "Feb", "Mar", "Apr", "May", "Jun", "Jul", "Aug", "Sep", "Oct", "Nov", "Dec">>

\* The values date_format can take: the six documented styles and one
\* unknown value, which falls through to the default branch.
DateFormats ==
    {"iso", "danish", "danish_short", "danish_text", "english", "english_short", "other"}

\* _format_date
FormatDate(fmt, d) ==
    LET ymd == Ord2Ymd(d)
    IN  CASE fmt = "iso" -> IsoDate(d)
          [] fmt = "danish" ->
                Pad2(ymd.day) \o "/" \o Pad2(ymd.month) \o "/" \o ToString(ymd.year)
          [] fmt = "danish_short" -> Pad2(ymd.day) \o "/" \o Pad2(ymd.month)
          [] fmt = "danish_text" ->
                ToString(ymd.day) \o ". " \o DANISH_MONTHS[ymd.month]
          [] fmt = "english" ->
                EnglishMonths[ymd.month] \o " " \o Pad2(ymd.day) \o ", " \o ToString(ymd.year)
          [] fmt = "english_short" ->
                EnglishMonthsShort[ymd.month] \o " " \o Pad2(ymd.day)
          [] OTHER ->
                Pad2(ymd.day) \o "/" \o Pad2(ymd.month) \o "/" \o ToString(ymd.year)

\* day.strftime("%A").lower()
DayKey(d) ==
    <<"monday", "tuesday", "wednesday", "thursday", "friday", "saturday", "sunday">>[Weekday(d) + 1]

\* ------------------------------------------------------------ the clock

\* A reading of dt_util.now() in Europe/Copenhagen: a date and a time of day.
Dates == FirstDay .. (FirstDay + NumDays - 1)

Instant(d, h, m) == [date |-> d, hour |-> h, minute |-> m]

\* now.isoformat()
IsoInstant(now) == IsoDate(now.date) \o "T" \o Pad2(now.hour) \o ":" \o Pad2(now.minute)

\* Every date of the window at the first and the last minute of every hour.
RichClock == {Instant(d, h, m) : d \in Dates, h \in 0 .. 23, m \in {0, 59}}

\* ------------------------------------------------------- week selector

CutoffHour == 14

\* Mutant: the comparison with the cutoff is strict in the hour.
AtOrAfterCutoffStrict(now) == now.hour > CutoffHour

\* current_time >= datetime.time(14, 0)
AtOrAfterCutoff(now) ==
    \/ now.hour > CutoffHour
    \/ now.hour = CutoffHour /\ now.minute >= 0

\* Mutant: the weekend stays on the current week.
RelevantMondayWeekendStays(now) ==
    LET current_monday == now.date - Weekday(now.date)
    IN  IF Weekday(now.date) = 4 /\ AtOrAfterCutoff(now)
        THEN current_monday + 7
        ELSE current_monday

\* Mutant: next week is counted from today, not from this week's Monday.
RelevantMondayFromToday(now) ==
    LET current_monday == now.date - Weekday(now.date)
    IN  IF Weekday(now.date) <= 3 \/ (Weekday(now.date) = 4 /\ ~AtOrAfterCutoff(now))
        THEN current_monday
        ELSE now.date + 7

\* _get_relevant_monday(current_date, current_time)
RelevantMonday(now) ==
    LET days_since_monday == Weekday(now.date)
        current_monday == now.date - days_since_monday
        next_monday == current_monday + 7
        weekday == Weekday(now.date)
    IN  IF weekday <= 3 THEN current_monday
        ELSE IF weekday = 4
             THEN IF AtOrAfterCutoff(now) THEN next_monday ELSE current_monday
             ELSE next_monday

\* Mutant: the anchor is compared with today, not with this week's Monday.
WeekDescriptionByDate(fmt, mon, current_date) ==
    IF mon = current_date
    THEN "This week (" \o FormatDate(fmt, mon) \o ")"
    ELSE "Next week (" \o FormatDate(fmt, mon) \o ")"

\* _get_week_description(monday, current_date)
WeekDescription(fmt, mon, current_date) ==
    LET current_week_monday == current_date - Weekday(current_date)
        formatted_date == FormatDate(fmt, mon)
    IN  IF mon = current_week_monday
        THEN "This week (" \o formatted_date \o ")"
        ELSE "Next week (" \o formatted_date \o ")"


\* ------------------------------------------------- upstream responses

\* A dish name as the characters of the Navn string.
Whitespace == {" ", "\t"}

RECURSIVE LStrip(_)
LStrip(chars) ==
    IF chars # <<>> /\ Head(chars) \in Whitespace THEN LStrip(Tail(chars)) ELSE chars

RECURSIVE RStrip(_)
RStrip(chars) ==
    IF chars # <<>> /\ chars[Len(chars)] \in Whitespace
    THEN RStrip(SubSeq(chars, 1, Len(chars) - 1))
    ELSE chars

\* Mutant: only leading whitespace is removed.
StripLeadingOnly(chars) == LStrip(chars)

\* str.strip()
Strip(chars) == RStrip(LStrip(chars))

\* JSON values of the payload.  An entry of "varer" is a dict that may hold
\* "Navn" (a string, null, or a non-zero number), or is not a dict at all.
NavnStr(chars) == [t |-> "str", chars |-> chars]
NavnNull == [t |-> "null", chars |-> <<>>]
NavnInt == [t |-> "int", chars |-> <<>>]
Entry(navn) == [t |-> "dict", navn |-> navn]
EntryNotDict == [t |-> "other", navn |-> None]

\* A section of "menuoverskrifter": a dict with its "varer", or another type.
Section(varer) == [t |-> "dict", varer |-> varer]
SectionNotDict == [t |-> "other", varer |-> <<>>]

\* "menuoverskrifter": absent, a dict (its sections in iteration order), or
\* a non-empty list (a structurally unexpected payload).
MenuAbsent == [t |-> "absent", sections |-> <<>>]
MenuDict(sections) == [t |-> "dict", sections |-> sections]
MenuList == [t |-> "list", sections |-> <<>>]

\* The body of a 200 response: not JSON, JSON that is no object, or an
\* object with an optional "dato" and its "menuoverskrifter".
BodyMalformed == [json |-> "malformed", dato |-> None, menu |-> MenuAbsent]
BodyNotDict == [json |-> "list", dato |-> None, menu |-> MenuAbsent]
BodyDict(dato, menu) == [json |-> "dict", dato |-> dato, menu |-> menu]

\* What session.get(url) produces: a connection failure or a response.
NetworkError == [kind |-> "neterr", status |-> 0, body |-> BodyMalformed]
Http(status, body) == [kind |-> "http", status |-> status, body |-> body]

\* ------------------------------------------------------------ day parser

\* The outcome of a call: a returned item list, or a raised exception.
Returned(items) == [raised |-> FALSE, items |-> items, error |-> ""]
Raised(msg) == [raised |-> TRUE, items |-> <<>>, error |-> msg]

\* len(varer) summed over the dict sections (lines 284-288)
RECURSIVE TotalItems(_)
TotalItems(sections) ==
    IF sections = <<>> THEN 0
    ELSE (IF Head(sections).t = "dict" THEN Len(Head(sections).varer) ELSE 0)
         + TotalItems(Tail(sections))

\* The inner loop over one section's entries (lines 301-305), appending to
\* the items collected so far; a Navn that is no string raises at strip().
RECURSIVE CollectEntries(_, _)
CollectEntries(varer, acc) ==
    IF acc.raised \/ varer = <<>> THEN acc
    ELSE LET item == Head(varer)
             has_navn == item.t = "dict" /\ item.navn # None
             name == item.navn[1]
         IN  IF ~has_navn \/ name.t = "null" \/ (name.t = "str" /\ name.chars = <<>>)
             THEN CollectEntries(Tail(varer), acc)
             ELSE IF name.t = "int"
                  THEN Raised("'int' object has no attribute 'strip'")
                  ELSE IF Strip(name.chars) # <<>>
                       THEN CollectEntries(Tail(varer),
                                           Returned(Append(acc.items, Strip(name.chars))))
                       ELSE CollectEntries(Tail(varer), acc)

\* The outer loop over the sections (lines 296-305)
RECURSIVE CollectSections(_, _)
CollectSections(sections, acc) ==
    IF acc.raised \/ sections = <<>> THEN acc
    ELSE IF Head(sections).t # "dict"
         THEN CollectSections(Tail(sections), acc)
         ELSE CollectSections(Tail(sections), CollectEntries(Head(sections).varer, acc))

\* Mutant: the echoed date is not compared with the requested one.
ParseDayDataAnyDate(data, requested_date) ==
    LET menuoverskrifter == data.menu
    IN  IF data.json # "dict" THEN Returned(<<>>)
        ELSE IF menuoverskrifter.t = "absent" THEN Returned(<<>>)
        ELSE IF menuoverskrifter.t = "list"
             THEN Raised("'list' object has no attribute 'values'")
        ELSE IF menuoverskrifter.sections = <<>> THEN Returned(<<>>)
        ELSE IF TotalItems(menuoverskrifter.sections) = 0 THEN Returned(<<>>)
        ELSE CollectSections(menuoverskrifter.sections, Returned(<<>>))

\* _parse_day_data(data, requested_date)
ParseDayData(data, requested_date) ==
    LET returned_date == data.dato
        requested_date_str == IsoDate(requested_date)
        menuoverskrifter == data.menu
    IN  IF data.json # "dict" THEN Returned(<<>>)
        ELSE IF returned_date # Some(requested_date_str) THEN Returned(<<>>)
        ELSE IF menuoverskrifter.t = "absent" THEN Returned(<<>>)
        ELSE IF menuoverskrifter.t = "list"
             THEN Raised("'list' object has no attribute 'values'")
        ELSE IF menuoverskrifter.sections = <<>> THEN Returned(<<>>)
        ELSE IF TotalItems(menuoverskrifter.sections) = 0 THEN Returned(<<>>)
        ELSE CollectSections(menuoverskrifter.sections, Returned(<<>>))

\* _fetch_day_menu(session, date_obj): the outcome for one response
FetchDayMenu(resp, date_obj) ==
    IF resp.kind = "neterr" THEN Raised("Cannot connect to host")
    ELSE IF resp.status # 200 THEN Raised("HTTP " \o ToString(resp.status))
    ELSE IF resp.body.json = "malformed" THEN Raised("Expecting value")
    ELSE ParseDayData(resp.body, date_obj)

\* ------------------------------------------------------ week aggregator

\* The per-day records written to week_data (lines 136-172).
\* Mutant: a day that repeats the previous menu is marked unavailable.
DuplicateRecordUnavailable(fmt, day, menu_items) ==
    [date |-> IsoDate(day), items |-> menu_items, available |-> FALSE,
     note |-> "Might be repeated from previous day"]

DuplicateRecord(fmt, day, menu_items) ==
    [date |-> IsoDate(day), items |-> menu_items, available |-> TRUE,
     note |-> "Might be repeated from previous day"]

MenuRecord(fmt, day, menu_items) ==
    [date |-> FormatDate(fmt, day), date_iso |-> IsoDate(day),
     items |-> menu_items, available |-> TRUE]

EmptyRecord(fmt, day) ==
    [date |-> FormatDate(fmt, day), date_iso |-> IsoDate(day),
     items |-> <<>>, available |-> FALSE]

ErrorRecord(fmt, day, msg) ==
    [date |-> FormatDate(fmt, day), date_iso |-> IsoDate(day),
     items |-> <<>>, available |-> FALSE, error |-> msg]

\* menu_items and previous_menu and menu_items == previous_menu (line 133)
IsRepeat(menu_items, prev) ==
    menu_items # <<>> /\ prev # None /\ prev[1] # <<>> /\ menu_items = prev[1]

\* The record one iteration of the loop writes for `day`, given the outcome
\* of _fetch_day_menu and the previous_menu it is compared with.
DayRecord(fmt, day, outcome, prev) ==
    IF outcome.raised THEN ErrorRecord(fmt, day, outcome.error)
    ELSE IF IsRepeat(outcome.items, prev) THEN DuplicateRecord(fmt, day, outcome.items)
    ELSE IF outcome.items # <<>> THEN MenuRecord(fmt, day, outcome.items)
    ELSE EmptyRecord(fmt, day)

\* Mutant: a day without a menu forgets the menu to compare with.
NextPreviousMenuAdjacent(outcome, prev) ==
    IF outcome.raised \/ outcome.items = <<>> THEN None
    ELSE IF IsRepeat(outcome.items, prev) THEN prev
    ELSE Some(outcome.items)

\* previous_menu after the iteration: replaced only in the elif branch
\* (line 149).
NextPreviousMenu(outcome, prev) ==
    IF ~outcome.raised /\ ~IsRepeat(outcome.items, prev) /\ outcome.items # <<>>
    THEN Some(outcome.items)
    ELSE prev

\* One iteration of the loop body: the dict and previous_menu after it.
DayStep(fmt, wd, prev, day, resp) ==
    LET outcome == FetchDayMenu(resp, day)
    IN  [week_data |-> (DayKey(day) :> DayRecord(fmt, day, outcome, prev)) @@ wd,
         previous_menu |-> NextPreviousMenu(outcome, prev)]

\* any(day["available"] for day in week_data.values())
AnyAvailable(wd) == \E k \in DOMAIN wd : wd[k].available

\* Mutant: all() in place of any().
WeekResultAll(wd) == IF \A k \in DOMAIN wd : wd[k].available THEN Some(wd) ELSE None

\* The value _fetch_week_data returns (line 178)
WeekResult(wd) == IF AnyAvailable(wd) THEN Some(wd) ELSE None

\* The loop of _fetch_week_data from its i-th iteration on, run on a given
\* sequence of responses: the dict assembled when it ends (lines 124-176).
RECURSIVE FetchWeekLoop(_, _, _, _, _, _)
FetchWeekLoop(fmt, mon, resps, i, wd, prev) ==
    IF i > Len(resps) THEN wd
    ELSE LET step == DayStep(fmt, wd, prev, mon + (i - 1), resps[i])
         IN  FetchWeekLoop(fmt, mon, resps, i + 1, step.week_data, step.previous_menu)

\* The dict _fetch_week_data(monday) assembles from a sequence of responses
\* (lines 116-176).
FetchWeekData(fmt, mon, resps) == FetchWeekLoop(fmt, mon, resps, 1, <<>>, None)

\* ---------------------------------------------------------- the request

\* BASE_URL up to its {millis} placeholder, character by character (line 17)
BASE_URL ==
 << "h", "t", "t", "p", "s", ":", "/", "/", "m", "a", "d", "v", "o", "g", "n", "e", "n",
    ".", "d", "k", "/", "g", "e", "t", "s", "e", "r", "v", "i", "c", "e", ".", "p", "h",
    "p", "?", "a", "c", "t", "i", "o", "n", "=", "h", "e", "n", "t", "m", "e", "n", "u",
    "k", "u", "n", "d", "e", "g", "r", "u", "p", "p", "e", "&", "K", "u", "n", "d", "e",
    "g", "r", "u", "p", "p", "e", "I", "D", "=", "2", "5", "2", "&", "m", "i", "l", "l",
    "i", "s", "=" >>

\* config_entry.data.get("customer_group_id", 252): the default (line 185)
DefaultGroupId == 252

\* str(n) of a natural number, character by character
RECURSIVE Digits(_)
Digits(n) ==
    IF n < 10 THEN <<ToString(n)>> ELSE Append(Digits(n \div 10), ToString(n % 10))

\* The ordinal of a calendar date (datetime._ymd2ord)
Ymd2Ord(year, month, day) ==
    LET leap == year % 4 = 0 /\ (year % 100 # 0 \/ year % 400 = 0)
    IN  YearStart(year) - 1 + DaysBeforeMonth(month)
            + (IF month > 2 /\ leap THEN 1 ELSE 0) + day

\* The last Sunday of a month of 31 days.
LastSunday(year, month) ==
    LET last == Ymd2Ord(year, month, 31)
    IN  last - ((Weekday(last) + 1) % 7)

\* ZoneInfo("Europe/Copenhagen") at noon of a date: two hours ahead of UTC
\* from the last Sunday of March until the last Sunday of October, one hour
\* ahead otherwise (the rule in force since 1996).
UtcOffsetHours(date_obj) ==
    LET year == Ord2Ymd(date_obj).year
    IN  IF LastSunday(year, 3) <= date_obj /\ date_obj < LastSunday(year, 10)
        THEN 2 ELSE 1

\* (noon - epoch).total_seconds() (lines 259-261)
NoonEpochSeconds(date_obj) ==
    (date_obj - Ymd2Ord(1970, 1, 1)) * 86400 + (12 - UtcOffsetHours(date_obj)) * 3600

\* _calculate_millis(date_obj), as str() renders it in the URL: the value
\* is total_seconds() * 1000, beyond 32 bits, so it is kept as its decimal
\* digits, those of the seconds followed by three zeros.
\* (the number of seconds is bound once)
CalculateMillis(date_obj) ==
    CHOOSE digits \in { Digits(seconds) \o <<"0", "0", "0">> :
                            seconds \in {NoonEpochSeconds(date_obj)} } : TRUE

\* str.replace(old, new): every non-overlapping occurrence, left to right
\* (find the next occurrence from position i on, copy what precedes it,
\* put new in its place, go on after it)
RECURSIVE ReplaceFrom(_, _, _, _)
ReplaceFrom(chars, old, new, i) ==
    LET found == {j \in i .. (Len(chars) - Len(old) + 1) :
                     SubSeq(chars, j, j + Len(old) - 1) = old}
    IN  IF found = {} THEN SubSeq(chars, i, Len(chars))
        ELSE LET j == CHOOSE k \in found : \A l \in found : k <= l
             IN  SubSeq(chars, i, j - 1) \o new
                     \o ReplaceFrom(chars, old, new, j + Len(old))

Replace(chars, old, new) == ReplaceFrom(chars, old, new, 1)

\* The url _fetch_day_menu requests, given the millis it has computed:
\* BASE_URL.format(millis=millis).replace("252", str(customer_group_id))
RequestUrl(group_id, millis_digits) ==
    Replace(BASE_URL \o millis_digits, <<"2", "5", "2">>, Digits(group_id))

\* ------------------------------------------------------------- the state

VARIABLES
    variant,        \* which sensor module is installed: "current" is
                    \* custom_components/madvognen/sensor.py, "legacy" is sensor.py
    date_format,    \* self._date_format, fixed at construction
    state,          \* self._state: None or a string
    attrs,          \* self._attr_extra_state_attributes
    pc,             \* where the running update is: idle, fetch, sleep, close
    now,            \* async_update's reading of the clock
    monday,         \* the anchor Monday of the running update
    day_offset,     \* the loop variable of _fetch_week_data
    week_data,      \* the dict being assembled
    previous_menu,  \* the last available day's items, or None
    responses,      \* what session.get produced for each day so far
    ret,            \* the value the last _fetch_week_data returned
    customer_group_id,  \* config_entry.data["customer_group_id"]
    millis,         \* the millis _fetch_day_menu last computed, as digits
    url,            \* the url _fetch_day_menu last requested
    events,         \* what the running pass has done so far, in order:
                    \* requests issued, outcomes recorded, delays slept
    frames,         \* the locals of the invocations of _fetch_week_data that
                    \* run side by side on the sensor, one frame per caller
    flow            \* the config flow (config_flow.py): its step, the groups
                    \* it fetched, the group it selected, the last value
                    \* submitted and the entry it created

sensorVars == <<variant, date_format, customer_group_id, state, attrs>>
passVars == <<now, monday, day_offset, week_data, previous_menu, responses, ret, millis,
              url, events>>
vars == <<variant, date_format, state, attrs, pc, now, monday, day_offset, week_data,
          previous_menu, responses, ret, customer_group_id, millis, url, events,
          frames, flow>>

\* The callers that may each have an invocation of _fetch_week_data in
\* flight: the scheduled update and an update requested meanwhile.
Callers == {"scheduled", "requested"}

\* A caller with no invocation yet.
NoFrame ==
    [pc |-> "none", monday |-> 0, day_offset |-> 0, week_data |-> <<>>,
     previous_menu |-> None, responses |-> <<>>, ret |-> None]

NoFrames == [c \in Callers |-> NoFrame]

\* ConfigFlow.__init__ (config_flow.py lines 29-32), the flow at its first
\* step; errors is what the form of the user step shows.
NewFlow ==
    [step |-> "user", errors |-> None, customer_groups |-> <<>>,
     selected_group |-> None, submitted |-> None, reason |-> None, entry |-> None]

\* session.get(url) is called for a day (line 188; legacy line 48)
GetEvent(day) == [op |-> "get", day |-> day]

\* The day's entry is written to week_data (lines 136-172; legacy 51-55)
OutcomeEvent(day) == [op |-> "outcome", day |-> day]

\* asyncio.sleep(1) has run after a day (lines 162, 176)
SleepEvent(day) == [op |-> "sleep", day |-> day]

\* Mutant: the loop runs over the week from its last day to its first.
DayReversed == monday + (4 - day_offset)

\* The day the loop is at.
Day == monday + day_offset

\* __init__ (lines 49-63) for the given configurations; no update has run.
InitSensor(formats, groups) ==
    /\ variant = "current"
    /\ date_format \in formats
    /\ customer_group_id \in groups
    /\ state = None
    /\ attrs = <<>>
    /\ pc = "idle"
    /\ now = Instant(FirstDay, 0, 0)
    /\ monday = FirstDay
    /\ day_offset = 0
    /\ week_data = <<>>
    /\ previous_menu = None
    /\ responses = <<>>
    /\ ret = None
    /\ millis = <<>>
    /\ url = <<>>
    /\ events = <<>>
    /\ frames = NoFrames
    /\ flow = NewFlow

\* __init__ with the default customer group.
InitFormats(formats) == InitSensor(formats, {DefaultGroupId})

\* async_update, lines 72-85, and the start of _fetch_week_data, lines
\* 116-124: read the clock, select the week, start the pass.
BeginUpdate(clock) ==
    /\ variant = "current"
    /\ pc = "idle"
    /\ \E n \in clock :
          /\ now' = n
          /\ monday' = RelevantMonday(n)
          /\ millis' = CalculateMillis(RelevantMonday(n))
          /\ url' = RequestUrl(customer_group_id, millis')
          /\ events' = <<GetEvent(RelevantMonday(n))>>
    /\ day_offset' = 0
    /\ week_data' = <<>>
    /\ previous_menu' = None
    /\ responses' = <<>>
    /\ pc' = "fetch"
    /\ UNCHANGED <<flow, frames, sensorVars, ret>>

\* Mutant: a failed day ends the loop.
AfterFetchStopsOnError(outcome) ==
    IF outcome.raised THEN "close"
    ELSE IF day_offset < 4 THEN "sleep" ELSE "close"

\* Mutant: a day that failed is requested again at once.
AfterFetchRetries(outcome) ==
    IF outcome.raised THEN "fetch"
    ELSE IF day_offset < 4 THEN "sleep" ELSE "close"

\* Mutant: a delay follows every day, the last included.
AfterFetchAlwaysSleeps(outcome) == "sleep"

\* Where the pass goes after a day: to the delay before the next day, in
\* the try and in the except branch alike (lines 161-162, 175-176), or out
\* of the loop after the fifth.
AfterFetch(outcome) == IF day_offset < 4 THEN "sleep" ELSE "close"

\* One iteration of the loop (lines 125-172): the request for the day
\* completes with some response and the day's record is written.
FetchDay(upstream(_)) ==
    /\ variant = "current"
    /\ pc = "fetch"
    /\ \E resp \in upstream(Day) :
       \E step \in {DayStep(date_format, week_data, previous_menu, Day, resp)} :
          /\ week_data' = step.week_data
          /\ previous_menu' = step.previous_menu
          /\ responses' = Append(responses, resp)
          /\ pc' = AfterFetch(FetchDayMenu(resp, Day))
    /\ events' = Append(events, OutcomeEvent(Day))
    /\ UNCHANGED <<flow, frames, sensorVars, now, monday, day_offset, ret, millis, url>>

\* asyncio.sleep(1) after the days before the last (lines 161-162, 175-176)
\* returns and the loop requests the next day (lines 124-129, 182-188).
Sleep ==
    /\ variant = "current"
    /\ pc = "sleep"
    /\ day_offset' = day_offset + 1
    /\ millis' = CalculateMillis(Day + 1)
    /\ url' = RequestUrl(customer_group_id, millis')
    /\ events' = events \o <<SleepEvent(Day), GetEvent(Day + 1)>>
    /\ pc' = "fetch"
    /\ UNCHANGED <<flow, frames, sensorVars, now, monday, week_data, previous_menu, responses, ret>>

\* Mutant: only the days that have a menu are exposed.
AttrsOnSuccessAvailableOnly(wd) ==
    ("last_updated" :> IsoInstant(now))
        @@ [k \in {d \in DOMAIN wd : wd[d].available} |-> wd[k]] @@ attrs

\* The attributes and state after a pass that returned a record (lines 88-93)
AttrsOnSuccess(wd) == ("last_updated" :> IsoInstant(now)) @@ wd @@ attrs

\* Mutant: a failed pass clears the attributes whatever the state.
AttrsOnFailureClears == <<>>

\* The attributes after a pass that returned None (lines 98-104)
AttrsOnFailure ==
    IF state = None THEN <<>>
    ELSE ("last_updated" :> IsoInstant(now)) @@ ("last_error" :> "Failed to fetch menu data")
         @@ attrs

\* Mutant: a failed pass leaves the state as it is, also on the first run.
StateOnFailureKeeps == state

\* Mutant: a failed pass marks the sensor unavailable whatever the state.
StateOnFailureUnavailable == Some("unavailable")

\* The state after a pass that returned None (lines 98-99)
StateOnFailure == IF state = None THEN Some("unavailable") ELSE state

\* The session closes, _fetch_week_data returns (line 178) and async_update
\* applies the result to the sensor (lines 87-105).
Complete ==
    /\ variant = "current"
    /\ pc = "close"
    /\ ret' = WeekResult(week_data)
    /\ IF WeekResult(week_data) # None
       THEN /\ attrs' = AttrsOnSuccess(WeekResult(week_data)[1])
            /\ state' = Some(WeekDescription(date_format, monday, now.date))
       ELSE /\ attrs' = AttrsOnFailure
            /\ state' = StateOnFailure
    /\ pc' = "idle"
    /\ UNCHANGED <<flow, frames, variant, date_format, customer_group_id, now, monday, day_offset,
                   week_data, previous_menu, responses, millis, url, events>>

\* An exception escapes the try block of async_update before the pass
\* starts (lines 107-112).
UpdateRaises ==
    /\ variant = "current"
    /\ pc = "idle"
    /\ IF state = None
       THEN state' = Some("unavailable") /\ attrs' = <<>>
       ELSE UNCHANGED <<state, attrs>>
    /\ UNCHANGED <<flow, frames, variant, date_format, customer_group_id, pc, passVars>>

\* An exception escapes _fetch_week_data while the pass is running (line 85:
\* the session fails to open or to close, or a handler of the loop raises)
\* and reaches the except clause of async_update (lines 107-112); the pass
\* is abandoned and nothing of it is applied.
PassRaises ==
    /\ variant = "current"
    /\ pc \in {"fetch", "sleep", "close"}
    /\ IF state = None
       THEN state' = Some("unavailable") /\ attrs' = <<>>
       ELSE UNCHANGED <<state, attrs>>
    /\ pc' = "idle"
    /\ UNCHANGED <<flow, frames, variant, date_format, customer_group_id, passVars>>

\* ------------------------------------------------- the legacy sensor
\* sensor.py at the top of the repository: the same loop with no date
\* check, no records and no delay.

\* day.strftime("%A")
DayName(d) ==
    <<"Monday", "Tuesday", "Wednesday", "Thursday", "Friday", "Saturday", "Sunday">>[Weekday(d) + 1]

\* A string the legacy loop writes itself, as one entry of a day's list.
LegacyText(str) == [t |-> "text", chars |-> <<str>>]

\* item.get("Navn"): the value, None when the key is missing
LegacyNavn(item) == IF item.navn = None THEN NavnNull ELSE item.navn[1]

\* The inner loop of the legacy parser (lines 74-75): every entry must be a
\* dict.
RECURSIVE LegacyCollectEntries(_, _)
LegacyCollectEntries(varer, acc) ==
    IF acc.raised \/ varer = <<>> THEN acc
    ELSE IF Head(varer).t # "dict"
         THEN Raised("'str' object has no attribute 'get'")
         ELSE LegacyCollectEntries(Tail(varer),
                                   Returned(Append(acc.items, LegacyNavn(Head(varer)))))

\* The outer loop of the legacy parser (lines 73-75): every section must be
\* a dict.
RECURSIVE LegacyCollectSections(_, _)
LegacyCollectSections(sections, acc) ==
    IF acc.raised \/ sections = <<>> THEN acc
    ELSE IF Head(sections).t # "dict"
         THEN Raised("'str' object has no attribute 'get'")
         ELSE LegacyCollectSections(Tail(sections),
                                    LegacyCollectEntries(Head(sections).varer, acc))

\* _parse_day_data(data) of the legacy sensor
LegacyParseDayData(data) ==
    IF data.json # "dict" THEN Raised("'list' object has no attribute 'get'")
    ELSE IF data.menu.t = "list" THEN Raised("'list' object has no attribute 'values'")
    ELSE LegacyCollectSections(data.menu.sections, Returned(<<>>))

\* What the try block of the legacy loop does with a response (lines 46-53)
LegacyFetch(resp) ==
    IF resp.kind = "neterr" THEN Raised("Cannot connect to host")
    ELSE IF resp.status # 200 THEN Returned(<<LegacyText("Unavailable")>>)
    ELSE IF resp.body.json = "malformed" THEN Raised("Expecting value")
    ELSE LegacyParseDayData(resp.body)

\* The list the legacy loop stores for a day (lines 46-55)
LegacyDayList(resp) ==
    LET outcome == LegacyFetch(resp)
    IN  IF outcome.raised THEN <<LegacyText("Error: " \o outcome.error)>> ELSE outcome.items

\* monday = today + timedelta(days=-today.weekday(), weeks=1)
LegacyMonday(today) == today - Weekday(today) + 7

\* The Monday that starts ISO week 1 of a year (datetime._isoweek1monday)
IsoWeek1Monday(year) ==
    LET firstday == YearStart(year)
        firstweekday == (firstday + 6) % 7
        week1monday == firstday - firstweekday
    IN  IF firstweekday > 3 THEN week1monday + 7 ELSE week1monday

\* monday.isocalendar()[1]
IsoWeek(d) ==
    LET year == Ord2Ymd(d).year
        week == (d - IsoWeek1Monday(year)) \div 7
    IN  IF d < IsoWeek1Monday(year)
        THEN (d - IsoWeek1Monday(year - 1)) \div 7 + 1
        ELSE IF week >= 52 /\ d >= IsoWeek1Monday(year + 1) THEN 1
        ELSE week + 1

\* f"{monday.year}-Week-{week_number}"
LegacyState(mon) == ToString(Ord2Ymd(mon).year) \o "-Week-" \o ToString(IsoWeek(mon))

\* Legacy __init__ (lines 11-16); no update has run.
InitLegacy ==
    /\ variant = "legacy"
    /\ date_format = "iso"
    /\ customer_group_id = DefaultGroupId
    /\ state = None
    /\ attrs = <<>>
    /\ pc = "idle"
    /\ now = Instant(FirstDay, 0, 0)
    /\ monday = FirstDay
    /\ day_offset = 0
    /\ week_data = <<>>
    /\ previous_menu = None
    /\ responses = <<>>
    /\ ret = None
    /\ millis = <<>>
    /\ url = <<>>
    /\ events = <<>>
    /\ frames = NoFrames
    /\ flow = NewFlow

\* Legacy async_update, lines 34-40: read the date, take next Monday.
LegacyBeginUpdate(clock) ==
    /\ variant = "legacy"
    /\ pc = "idle"
    /\ \E n \in clock :
          /\ now' = n
          /\ monday' = LegacyMonday(n.date)
          /\ events' = <<GetEvent(LegacyMonday(n.date))>>
    /\ day_offset' = 0
    /\ week_data' = <<>>
    /\ responses' = <<>>
    /\ pc' = "fetch"
    /\ UNCHANGED <<flow, frames, sensorVars, previous_menu, ret, millis, url>>

\* Where the legacy loop goes after a day: to the next day, whatever the
\* try block did (lines 41-55), or out of the loop after the fifth.
LegacyAfterFetch(outcome) == IF day_offset < 4 THEN "fetch" ELSE "close"

\* One iteration of the legacy loop (lines 41-55)
LegacyFetchDay(upstream(_)) ==
    /\ variant = "legacy"
    /\ pc = "fetch"
    /\ \E resp \in upstream(Day) :
          /\ week_data' = (DayName(Day) :> LegacyDayList(resp)) @@ week_data
          /\ responses' = Append(responses, resp)
          /\ pc' = LegacyAfterFetch(LegacyFetch(resp))
          /\ day_offset' = IF LegacyAfterFetch(LegacyFetch(resp)) = "fetch"
                           THEN day_offset + 1
                           ELSE day_offset
          /\ events' = IF LegacyAfterFetch(LegacyFetch(resp)) = "fetch"
                       THEN events \o <<OutcomeEvent(Day), GetEvent(Day + 1)>>
                       ELSE Append(events, OutcomeEvent(Day))
    /\ UNCHANGED <<flow, frames, sensorVars, now, monday, previous_menu, ret, millis, url>>

\* The legacy session closes and the result is exposed (lines 57-59)
LegacyComplete ==
    /\ variant = "legacy"
    /\ pc = "close"
    /\ state' = Some(LegacyState(monday))
    /\ attrs' = week_data
    /\ pc' = "idle"
    /\ UNCHANGED <<flow, frames, variant, date_format, customer_group_id, passVars>>

\* ------------------------------------------------- inputs of the model

\* Payload menus: one dish; another dish, padded, after an entry that is no
\* dict and a section that is no dict; a section with no entries; a dish
\* followed by a Navn that is a number.
MenuA == MenuDict(<<Section(<<Entry(Some(NavnStr(<<"a">>)))>>)>>)
MenuB ==
    MenuDict(<<SectionNotDict,
               Section(<<EntryNotDict, Entry(Some(NavnStr(<<" ", "b", "\t">>)))>>)>>)
MenuNoEntries == MenuDict(<<Section(<<>>)>>)
MenuBadName == MenuDict(<<Section(<<Entry(Some(NavnStr(<<"a">>))), Entry(Some(NavnInt))>>)>>)

\* A 200 response echoing the requested date.
Echo(day, menu) == Http(200, BodyDict(Some(IsoDate(day)), menu))

\* What the upstream may answer to the request for `day`: failures of the
\* transport, of the status and of the body, payloads for the requested
\* day, and payloads that echo the previous day's date or no date.
Responses(day) ==
    { NetworkError,
      Http(500, BodyMalformed),
      Echo(day, MenuA),
      Echo(day, MenuB),
      Echo(day, MenuNoEntries),
      Echo(day, MenuBadName),
      Http(200, BodyDict(Some(IsoDate(day - 1)), MenuA)),
      Http(200, BodyDict(None, MenuBadName)) }

\* The responses the legacy loop is run on: the failures, a payload that is
\* no object, one that parses and one with a section that is no dict.
LegacyResponses(day) ==
    { NetworkError,
      Http(500, BodyMalformed),
      Http(200, BodyNotDict),
      Echo(day, MenuA),
      Echo(day, MenuB) }

\* The responses the partial-failure specification runs on: each way a day
\* can fail (transport, status, parsing) and each way it can succeed.
FailureResponses(day) ==
    { NetworkError,
      Http(500, BodyMalformed),
      Echo(day, MenuBadName),
      Echo(day, MenuA),
      Echo(day, MenuB),
      Echo(day, MenuNoEntries) }

\* The responses of the update-cycle specification: a menu or a failure.
LeanResponses(day) == { Http(403, BodyMalformed), Echo(day, MenuA) }

\* The entry lists ("varer") of the payload specification: none; one dish;
\* two dishes, the first padded, not in alphabetical order; the same dish
\* twice around an entry without "Navn", then a name with a space inside;
\* an entry that is no dict and one without "Navn"; names that are null,
\* empty and blank; a dish followed by a name that is a number.
EntryLists ==
    { <<>>,
      <<Entry(Some(NavnStr(<<"a">>)))>>,
      <<Entry(Some(NavnStr(<<" ", "b", "\t">>))), Entry(Some(NavnStr(<<"a">>)))>>,
      <<Entry(Some(NavnStr(<<"a">>))), Entry(None), Entry(Some(NavnStr(<<"a">>))),
        Entry(Some(NavnStr(<<"a", " ", "b">>)))>>,
      <<EntryNotDict, Entry(None)>>,
      <<Entry(Some(NavnNull)), Entry(Some(NavnStr(<<>>))), Entry(Some(NavnStr(<<" ">>)))>>,
      <<Entry(Some(NavnStr(<<"a">>))), Entry(Some(NavnInt))>> }

\* The sections built from them, and a section that is no dict.
Sections == {Section(varer) : varer \in EntryLists} \cup {SectionNotDict}

\* The values of "menuoverskrifter": missing, a list, and a mapping of no,
\* one or two sections.
Menus ==
    {MenuAbsent, MenuList, MenuDict(<<>>)}
        \cup {MenuDict(<<s>>) : s \in Sections}
        \cup {MenuDict(<<s1, s2>>) : s1 \in Sections, s2 \in Sections}

\* The responses of the payload specification: Monday's is a 200 response
\* with any body (not JSON, JSON that is no object, an object for the day
\* with any of the menus); the other days answer with a menu.
PayloadResponses(day) ==
    IF DayKey(day) = "monday"
    THEN {Http(200, BodyMalformed), Http(200, BodyNotDict)}
             \cup {Echo(day, menu) : menu \in Menus}
    ELSE {Echo(day, MenuA)}

\* The customer groups the url is built for: the default, shorter and
\* longer ids, and one that contains the default's digits.
GroupIds == {DefaultGroupId, 7, 25, 1252}

\* The weeks after the start of the window that the url is built for.
UrlWeeks == 8

\* A morning reading of the clock on the first day of the window and on
\* the same day of each week after it.
UrlClock == {Instant(FirstDay + 7 * w, 9, 0) : w \in 0 .. UrlWeeks}

\* The upstream throttles every request.
UrlResponses(day) == { Http(403, BodyMalformed) }

\* Clock readings either side of the Friday cutoff of the window's first week.
LeanClock == { Instant(FirstDay + 4 - Weekday(FirstDay), 13, 59),
               Instant(FirstDay + 4 - Weekday(FirstDay), CutoffHour, 0) }

\* Every date of the window just before and at the Friday cutoff hour.
DescriptionClock ==
    {Instant(d, CutoffHour - 1, 59) : d \in Dates} \cup {Instant(d, CutoffHour, 0) : d \in Dates}

\* Monday is refused or serves a menu; the other days are refused.
DescriptionResponses(day) ==
    IF DayKey(day) = "monday" THEN LeanResponses(day) ELSE { Http(403, BodyMalformed) }

\* ------------------------------------------- invocations side by side

\* Mutant: previous_menu is read from the frame of the other invocation,
\* as if it were shared between them.
PreviousMenuOfOther(c) == frames[CHOOSE o \in Callers : o # c].previous_menu

\* previous_menu is a local of the invocation (line 117)
PreviousMenuOf(c) == frames[c].previous_menu

\* A caller that has no invocation in flight calls _fetch_week_data(monday)
\* with the Monday its reading of the clock selects; the locals are fresh
\* (lines 116-117).
CallFetchWeek ==
    /\ variant = "current"
    /\ \E c \in Callers, n \in LeanClock :
          /\ frames[c].pc \in {"none", "returned"}
          /\ frames' = [frames EXCEPT ![c] =
                 [pc |-> "fetch", monday |-> RelevantMonday(n), day_offset |-> 0,
                  week_data |-> <<>>, previous_menu |-> None, responses |-> <<>>,
                  ret |-> None]]
    /\ UNCHANGED <<flow, sensorVars, pc, passVars>>

\* One iteration of the loop of an invocation (lines 125-172)
FrameFetchDay ==
    /\ \E c \in Callers :
          /\ frames[c].pc = "fetch"
          /\ \E resp \in LeanResponses(frames[c].monday + frames[c].day_offset) :
             \E step \in {DayStep(date_format, frames[c].week_data, PreviousMenuOf(c),
                                   frames[c].monday + frames[c].day_offset, resp)} :
                frames' = [frames EXCEPT
                    ![c].week_data = step.week_data,
                    ![c].previous_menu = step.previous_menu,
                    ![c].responses = Append(frames[c].responses, resp),
                    ![c].pc = IF frames[c].day_offset < 4 THEN "sleep" ELSE "close"]
    /\ UNCHANGED <<flow, sensorVars, pc, passVars>>

\* The delay of an invocation ends and its loop goes on (lines 162, 176, 124)
FrameSleep ==
    /\ \E c \in Callers :
          /\ frames[c].pc = "sleep"
          /\ frames' = [frames EXCEPT ![c].day_offset = frames[c].day_offset + 1,
                                       ![c].pc = "fetch"]
    /\ UNCHANGED <<flow, sensorVars, pc, passVars>>

\* An invocation closes its session and returns (line 178)
FrameReturn ==
    /\ \E c \in Callers :
          /\ frames[c].pc = "close"
          /\ frames' = [frames EXCEPT ![c].ret = WeekResult(frames[c].week_data),
                                       ![c].pc = "returned"]
    /\ UNCHANGED <<flow, sensorVars, pc, passVars>>

\* ------------------------------------------------------ the config flow
\* config_flow.py

\* A Python value with its type: an int, held as its decimal digits, or
\* a str, held as its characters.
PyInt(n) == [t |-> "int", v |-> Digits(n)]
PyStr(chars) == [t |-> "str", v |-> chars]

\* a == b: an int and a str are never equal
PyEq(a, b) == a.t = b.t /\ a.v = b.v

RECURSIVE DropZeros(_)
DropZeros(chars) ==
    IF Len(chars) > 1 /\ Head(chars) = "0" THEN DropZeros(Tail(chars)) ELSE chars

\* int(x) of a JSON number or of a string of digits (line 175)
PyIntOf(x) ==
    IF x.t = "int" THEN x ELSE [t |-> "int", v |-> DropZeros(Strip(x.v))]

\* str(x) of an int (line 86)
PyStrOf(x) == PyStr(x.v)

\* DATE_FORMAT_OPTIONS: its keys (lines 15-22)
DATE_FORMAT_OPTIONS ==
    {"iso", "danish", "danish_short", "danish_text", "english", "english_short"}

\* The items of the upstream's list of customer groups: an id given as a
\* number or as a string of digits, and a name (its characters); the last
\* has an empty name.  The names differ in their first letter.
ApiItems ==
    { [id |-> PyInt(252), navn |-> <<"B", "y">>],
      [id |-> PyStr(<<"0", "7">>), navn |-> <<" ", "A", "s", " ">>],
      [id |-> PyInt(1252), navn |-> <<"C">>],
      [id |-> PyInt(25), navn |-> <<>>] }

\* The lists of up to three of them, in any order.
ApiLists ==
    {items \in UNION {[1 .. n -> ApiItems] : n \in 0 .. 3} :
        \A i, j \in 1 .. Len(items) : items[i] = items[j] => i = j}

\* The loop over the items of a list (lines 156-186): an item with a name
\* and an id becomes a group with an int id and the stripped name.
RECURSIVE ParseGroups(_)
ParseGroups(items) ==
    IF items = <<>> THEN <<>>
    ELSE LET item == Head(items)
         IN  (IF item.navn # <<>>
              THEN << [id |-> PyIntOf(item.id), name |-> Strip(item.navn)] >>
              ELSE <<>>)
                 \o ParseGroups(Tail(items))

\* The order of the first letters of the names.
LetterRank == ("A" :> 1) @@ ("B" :> 2) @@ ("C" :> 3)
NameBefore(a, b) == LetterRank[a.name[1]] < LetterRank[b.name[1]]

\* What _fetch_customer_groups produces (lines 123-268): CannotConnect,
\* InvalidData (also when no group is found, lines 252-255), or the groups
\* sorted by name (line 258).
FetchCustomerGroups(result) ==
    IF result.kind # "list" THEN [raised |-> result.kind, groups |-> <<>>]
    ELSE IF ParseGroups(result.items) = <<>>
         THEN [raised |-> "invalid_data", groups |-> <<>>]
         ELSE [raised |-> "", groups |-> SortSeq(ParseGroups(result.items), NameBefore)]

\* What the request for the groups ends with.
FetchResults ==
    { [kind |-> "cannot_connect", items |-> <<>>],
      [kind |-> "invalid_data", items |-> <<>>] }
        \cup { [kind |-> "list", items |-> items] : items \in ApiLists }

\* The keys of group_options, the values the form offers (lines 85-88)
GroupOptions(groups) == { PyStrOf(groups[i].id) : i \in 1 .. Len(groups) }

\* The values handed to the select_group step: the values the form
\* offers, the ids themselves, and a value of neither kind.
SubmittedValues(groups) ==
    GroupOptions(groups) \cup {groups[i].id : i \in 1 .. Len(groups)} \cup {PyStr(<<"0">>)}

\* next((group for group in self.customer_groups if group["id"] ==
\* selected_id), None) (lines 74-77)
FindGroup(groups, selected_id) ==
    LET matching == {i \in 1 .. Len(groups) : PyEq(groups[i].id, selected_id)}
    IN  IF matching = {} THEN None
        ELSE Some(groups[CHOOSE i \in matching : \A j \in matching : i <= j])

\* async_step_user with a user_input (lines 38-68)
SubmitUser ==
    /\ flow.step = "user"
    /\ \E result \in FetchResults :
       \E fetched \in {FetchCustomerGroups(result)} :
          flow' = IF fetched.raised # ""
                  THEN [flow EXCEPT !.errors = Some(fetched.raised)]
                  ELSE IF fetched.groups = <<>>
                       THEN [flow EXCEPT !.customer_groups = <<>>,
                                         !.errors = Some("no_customer_groups")]
                       ELSE [flow EXCEPT !.customer_groups = fetched.groups,
                                         !.errors = None,
                                         !.step = "select_group"]
    /\ UNCHANGED <<sensorVars, pc, passVars, frames>>

\* async_step_select_group with a user_input (lines 72-82)
SubmitSelectGroup ==
    /\ flow.step = "select_group"
    /\ \E selected_id \in SubmittedValues(flow.customer_groups) :
       \E selected_group \in {FindGroup(flow.customer_groups, selected_id)} :
          flow' = IF selected_group = None
                  THEN [flow EXCEPT !.submitted = Some(selected_id),
                                    !.selected_group = None,
                                    !.step = "abort",
                                    !.reason = Some("invalid_group")]
                  ELSE [flow EXCEPT !.submitted = Some(selected_id),
                                    !.selected_group = selected_group,
                                    !.step = "date_format"]
    /\ UNCHANGED <<sensorVars, pc, passVars, frames>>

\* async_step_date_format with a user_input (lines 102-111)
SubmitDateFormat ==
    /\ flow.step = "date_format"
    /\ \E fmt \in DATE_FORMAT_OPTIONS :
          flow' = [flow EXCEPT
              !.step = "create_entry",
              !.entry = Some([customer_group_id |-> flow.selected_group[1].id,
                              customer_group_name |-> flow.selected_group[1].name,
                              date_format |-> fmt])]
    /\ UNCHANGED <<sensorVars, pc, passVars, frames>>

\* ------------------------------------------------------ specifications

\* Either sensor through any number of update cycles.
Init == InitFormats({"danish", "iso"}) \/ InitLegacy

Next ==
    \/ BeginUpdate(LeanClock)
    \/ FetchDay(LeanResponses)
    \/ Sleep
    \/ Complete
    \/ UpdateRaises
    \/ LegacyBeginUpdate(LeanClock)
    \/ LegacyFetchDay(LeanResponses)
    \/ LegacyComplete

Spec == Init /\ [][Next]_vars

\* A morning reading of the clock on the first day of the window.
LiveClock == { Instant(FirstDay, 9, 0) }

\* The current sensor through any number of update cycles, with the
\* progress the event loop gives a running update: every awaited request
\* ends, with a response or with an exception (the session has a total
\* timeout, line 120), every sleep returns (lines 162, 176) and the session
\* closes. Nothing obliges a further update to start.
InitLive == InitFormats({"iso"})

NextLive ==
    \/ BeginUpdate(LiveClock)
    \/ FetchDay(LeanResponses)
    \/ Sleep
    \/ Complete
    \/ UpdateRaises

SpecLive ==
    /\ InitLive
    /\ [][NextLive]_vars
    /\ WF_vars(FetchDay(LeanResponses))
    /\ WF_vars(Sleep)
    /\ WF_vars(Complete)

\* The current sensor through any number of update cycles, each of which
\* succeeds, fails on every day, or is ended by an exception before or
\* during its pass.
InitRaises == InitFormats({"iso"})

NextRaises ==
    \/ BeginUpdate(LeanClock)
    \/ FetchDay(LeanResponses)
    \/ Sleep
    \/ Complete
    \/ UpdateRaises
    \/ PassRaises

SpecRaises == InitRaises /\ [][NextRaises]_vars

\* The current sensor through any number of update cycles started on any
\* date of the window, each succeeding or failing as a whole.
InitDescription == InitFormats({"iso", "danish_text"})

NextDescription ==
    \/ BeginUpdate(DescriptionClock)
    \/ FetchDay(DescriptionResponses)
    \/ Sleep
    \/ Complete
    \/ UpdateRaises

SpecDescription == InitDescription /\ [][NextDescription]_vars

\* One config flow from its first form to its end.
InitFlow == InitFormats({"danish"})

NextFlow ==
    \/ SubmitUser
    \/ SubmitSelectGroup
    \/ SubmitDateFormat

SpecFlow == InitFlow /\ [][NextFlow]_vars

\* Two callers invoking _fetch_week_data on the same sensor again and
\* again, their invocations interleaved in every way.
InitOverlap == InitFormats({"danish"})

NextOverlap ==
    \/ CallFetchWeek
    \/ FrameFetchDay
    \/ FrameSleep
    \/ FrameReturn

SpecOverlap == InitOverlap /\ [][NextOverlap]_vars

\* The state in which a fresh sensor of one of the given variants enters
\* the loop over the days: the clock read and the anchor Monday chosen.
InitPass(variants) ==
    /\ variant \in variants
    /\ date_format = "danish_text"
    /\ customer_group_id = DefaultGroupId
    /\ state = None
    /\ attrs = <<>>
    /\ pc = "fetch"
    /\ now \in LeanClock
    /\ monday = IF variant = "current" THEN RelevantMonday(now) ELSE LegacyMonday(now.date)
    /\ day_offset = 0
    /\ week_data = <<>>
    /\ previous_menu = None
    /\ responses = <<>>
    /\ ret = None
    /\ millis = IF variant = "current" THEN CalculateMillis(monday) ELSE <<>>
    /\ url = IF variant = "current" THEN RequestUrl(customer_group_id, millis) ELSE <<>>
    /\ events = <<GetEvent(monday)>>
    /\ frames = NoFrames
    /\ flow = NewFlow

\* One aggregation pass of the current sensor over every upstream response.
InitWeek == InitPass({"current"})

NextWeek ==
    \/ FetchDay(Responses)
    \/ Sleep
    \/ Complete

SpecWeek == InitWeek /\ [][NextWeek]_vars

\* One pass of either variant over the failures and successes of each day.
InitFailures == InitPass({"current", "legacy"})

NextFailures ==
    \/ FetchDay(FailureResponses)
    \/ Sleep
    \/ Complete
    \/ LegacyFetchDay(LegacyResponses)
    \/ LegacyComplete

SpecFailures == InitFailures /\ [][NextFailures]_vars

\* One pass of the current sensor over every body of a 200 response.
InitPayload == InitPass({"current"})

NextPayload ==
    \/ FetchDay(PayloadResponses)
    \/ Sleep
    \/ Complete

SpecPayload == InitPayload /\ [][NextPayload]_vars

\* The requests of the passes of a sensor configured with any of the
\* customer groups, over the weeks of the window and after it.
InitUrl == InitSensor({"danish"}, GroupIds)

NextUrl ==
    \/ BeginUpdate(UrlClock)
    \/ FetchDay(UrlResponses)
    \/ Sleep
    \/ Complete

SpecUrl == InitUrl /\ [][NextUrl]_vars

\* The week selector over every clock reading of the window.
InitMonday == InitFormats(DateFormats)

NextMonday ==
    \/ BeginUpdate(RichClock)
    \/ UpdateRaises

SpecMonday == InitMonday /\ [][NextMonday]_vars

\* ------------------------------------------------------ week aggregator
\* Checked under SpecWeek: one pass over every sequence of responses.

WeekKeys == {"monday", "tuesday", "wednesday", "thursday", "friday"}

\* A pass of the current sensor, and one that has returned.
Current == variant = "current"
PassDone == Current /\ pc = "idle" /\ Len(responses) = 5

\* The date of the i-th request of the pass (1 = Monday) and its record.
DayOf(i) == monday + (i - 1)
RecordOf(i) == week_data[DayKey(DayOf(i))]
Recorded(i) == i \in 1 .. Len(responses) /\ DayKey(DayOf(i)) \in DOMAIN week_data

\* The i-th response is a 200 response whose payload is a JSON object.
IsPayload(resp) == resp.kind = "http" /\ resp.status = 200 /\ resp.body.json = "dict"

\* The response's "dato" is the requested date as YYYY-MM-DD.
EchoesDate(resp, day) == IsPayload(resp) /\ resp.body.dato = Some(IsoDate(day))

\* C3: the pass returns a week record exactly when at least one of the five
\* days Monday..Friday was recorded available, and None otherwise.
C3_RecordIffAvailable ==
    PassDone =>
        /\ (ret # None) <=> (\E i \in 1 .. 5 : Recorded(i) /\ RecordOf(i).available)
        /\ ret # None => ret = Some(week_data)

\* A pass in which only Wednesday has a menu returns a record.
C3_Witness ==
    /\ PassDone
    /\ ret # None
    /\ \A i \in 1 .. 5 : RecordOf(i).available <=> (i = 3)

\* C5: for a payload whose "dato" is missing or differs from the requested
\* date, whatever its sections hold, the parser returns the empty list
\* without raising, and the day is recorded unavailable, with no items and
\* no error.
C5_DateEcho ==
    \A i \in 1 .. Len(responses) :
        (Current /\ IsPayload(responses[i]) /\ ~EchoesDate(responses[i], DayOf(i))) =>
            /\ ParseDayData(responses[i].body, DayOf(i)) = Returned(<<>>)
            /\ Recorded(i)
            /\ ~RecordOf(i).available
            /\ RecordOf(i).items = <<>>
            /\ "error" \notin DOMAIN RecordOf(i)

\* A payload without "dato" whose sections would not parse, and a payload
\* carrying the previous day's date, both recorded as days without a menu.
C5_Witness ==
    /\ Current
    /\ Len(responses) >= 2
    /\ IsPayload(responses[1]) /\ responses[1].body.dato = None
    /\ responses[1].body.menu = MenuBadName
    /\ IsPayload(responses[2]) /\ responses[2].body.dato = Some(IsoDate(DayOf(1)))
    /\ \A i \in 1 .. 2 : ~RecordOf(i).available /\ "error" \notin DOMAIN RecordOf(i)

\* C6: in every per-day record, available is true exactly when the items
\* are non-empty, and only when the response echoed the requested date.
C6_AvailableFlag ==
    Current =>
        \A i \in 1 .. Len(responses) :
            /\ Recorded(i)
            /\ RecordOf(i).available <=> (RecordOf(i).items # <<>>)
            /\ RecordOf(i).available => EchoesDate(responses[i], DayOf(i))

\* A pass that wrote a record in each branch: a menu, a repeat of it, a day
\* without a menu and a failed day.
C6_Witness ==
    /\ Current
    /\ Len(responses) >= 4
    /\ RecordOf(1).available /\ "note" \notin DOMAIN RecordOf(1)
    /\ RecordOf(2).available /\ "note" \in DOMAIN RecordOf(2)
    /\ ~RecordOf(3).available /\ "error" \notin DOMAIN RecordOf(3)
    /\ ~RecordOf(4).available /\ "error" \in DOMAIN RecordOf(4)

\* The available days before the i-th.
AvailableBefore(i) == {j \in 1 .. (i - 1) : RecordOf(j).available}

\* The largest element of a non-empty set of numbers.
Latest(S) == CHOOSE j \in S : \A k \in S : k <= j

\* C7: an available day carries a note exactly when its items equal those of
\* the latest available day before it, unavailable and failed days in
\* between being skipped; the first available day carries none.
C7_DuplicateNote ==
    \A i \in 1 .. Len(responses) :
        (Current /\ RecordOf(i).available) =>
            ("note" \in DOMAIN RecordOf(i)) <=>
                /\ AvailableBefore(i) # {}
                /\ RecordOf(Latest(AvailableBefore(i))).items = RecordOf(i).items

\* Monday's menu, a failed Tuesday, and Wednesday repeating Monday: the
\* note is on Wednesday; Thursday differs and has none.
C7_Witness ==
    /\ Current
    /\ Len(responses) >= 4
    /\ RecordOf(1).available
    /\ "error" \in DOMAIN RecordOf(2)
    /\ RecordOf(3).available /\ "note" \in DOMAIN RecordOf(3)
    /\ RecordOf(4).available /\ "note" \notin DOMAIN RecordOf(4)

\* Checked under SpecFailures: one pass of either variant.

\* The i-th request of the pass failed: _fetch_day_menu raised.
Failed(i) == FetchDayMenu(responses[i], DayOf(i)).raised

\* The responses to a day's request that do not fail.
Succeeding(day) == {r \in FailureResponses(day) : ~FetchDayMenu(r, day).raised}

\* The week the pass would have assembled had the i-th response been alt.
HadItBeen(i, alt) == FetchWeekData(date_format, monday, [responses EXCEPT ![i] = alt])

\* The fields of a record that say what the day offers.
Offer(rec) ==
    [items |-> rec.items, available |-> rec.available,
     error |-> IF "error" \in DOMAIN rec THEN rec.error ELSE ""]

\* A failed day is recorded unavailable, without items, with the message of
\* the exception.
FailedDayRecorded ==
    \A i \in 1 .. Len(responses) :
        (Current /\ Failed(i)) =>
            /\ Recorded(i)
            /\ ~RecordOf(i).available
            /\ RecordOf(i).items = <<>>
            /\ "error" \in DOMAIN RecordOf(i)
            /\ RecordOf(i).error = FetchDayMenu(responses[i], DayOf(i)).error

\* In either variant the loop is left only after the fifth day, each day
\* having an entry.
LoopNeverAborted ==
    pc \in {"close", "idle"} =>
        /\ Len(responses) = 5
        /\ Cardinality(DOMAIN week_data) = 5
        /\ variant = "current" => DOMAIN week_data = WeekKeys
        /\ variant = "legacy" =>
              DOMAIN week_data = {"Monday", "Tuesday", "Wednesday", "Thursday", "Friday"}

\* C4 as stated: a failed day is recorded unavailable with its error, the
\* loop goes on in both variants, and every other day's record is the one
\* the pass would have written had that day not failed.
C4_AsStated ==
    /\ FailedDayRecorded
    /\ LoopNeverAborted
    /\ PassDone =>
          \A i \in 1 .. 5 : Failed(i) =>
              \A alt \in Succeeding(DayOf(i)) :
                  \A week \in {HadItBeen(i, alt)} :
                      \A j \in (1 .. 5) \ {i} : week[DayKey(DayOf(j))] = RecordOf(j)

\* C4, amended: a failed day is recorded unavailable with its error, the
\* loop goes on in both variants, and every other day's items, available
\* flag and error are those the pass would have recorded had that day not
\* failed; its whole record is the one the pass would have written had the
\* day answered with no menu.
C4_PartialFailure ==
    /\ FailedDayRecorded
    /\ LoopNeverAborted
    /\ PassDone =>
          \A i \in 1 .. 5 : Failed(i) =>
              \A alt \in Succeeding(DayOf(i)) :
                  \A week \in {HadItBeen(i, alt)} :
                      \A j \in (1 .. 5) \ {i} :
                          /\ Offer(week[DayKey(DayOf(j))]) = Offer(RecordOf(j))
                          /\ FetchDayMenu(alt, DayOf(i)).items = <<>> =>
                                week[DayKey(DayOf(j))] = RecordOf(j)

\* A pass in which only Thursday failed, with HTTP 500: Thursday carries
\* the error and the four other days their menus.
C4_Witness ==
    /\ PassDone
    /\ ret # None
    /\ responses[4] = Http(500, BodyMalformed)
    /\ RecordOf(4).error = "HTTP 500"
    /\ \A j \in {1, 2, 3, 5} : RecordOf(j).available

\* ---------------------------------------------------- retention policy
\* Checked under Spec: any number of update cycles.

\* An earlier cycle succeeded: the state is a week description.
Populated == state # None /\ state # Some("unavailable")

\* The step in which a pass returns None and the update applies it.
EndsInFailure == Current /\ pc = "close" /\ pc' = "idle" /\ ret' = None

\* C1: when the sensor is populated and an update cycle ends in total
\* failure, the state and the five per-weekday records are after the cycle
\* what they were before it; nothing but last_updated and last_error is
\* written.
C1_RetentionOnFailure ==
    [][(Populated /\ EndsInFailure) =>
          /\ state' = state
          /\ \A k \in WeekKeys :
                k \in DOMAIN attrs /\ k \in DOMAIN attrs' /\ attrs'[k] = attrs[k]
          /\ DOMAIN attrs \subseteq DOMAIN attrs'
          /\ \A k \in DOMAIN attrs' \ {"last_updated", "last_error"} :
                k \in DOMAIN attrs /\ attrs'[k] = attrs[k]]_vars

\* A populated sensor whose latest cycle failed: the description and a
\* Monday menu are still exposed, annotated with the error.
C1_Witness ==
    /\ Current
    /\ pc = "idle"
    /\ Len(responses) = 5
    /\ ret = None
    /\ Populated
    /\ "last_error" \in DOMAIN attrs
    /\ "monday" \in DOMAIN attrs
    /\ attrs["monday"].available

\* C2: when the state is None and an update cycle ends in total failure
\* the state becomes "unavailable"; when the first cycle succeeds the state
\* becomes a week description of the anchor Monday, never "unavailable".
C2_FirstRun ==
    [][(Current /\ state = None /\ pc = "close" /\ pc' = "idle") =>
          IF ret' = None
          THEN state' = Some("unavailable")
          ELSE /\ state' # Some("unavailable")
               /\ state' \in {Some(w \o " week (" \o FormatDate(date_format, monday) \o ")") :
                                 w \in {"This", "Next"}}]_vars

\* A first cycle that failed: "unavailable" and no attributes.
C2_Witness ==
    /\ Current
    /\ pc = "idle"
    /\ Len(responses) = 5
    /\ ret = None
    /\ state = Some("unavailable")
    /\ attrs = <<>>

\* ------------------------------------------------------ week selector
\* Checked under SpecMonday: every date of the window, every hour.

\* The Monday of the week a date lies in, counted back day by day.
RECURSIVE MondayOfWeek(_)
MondayOfWeek(d) == IF DayKey(d) = "monday" THEN d ELSE MondayOfWeek(d - 1)

MinuteOfDay(t) == t.hour * 60 + t.minute

\* An update has read the clock and selected its week.
Selected == pc = "fetch"

\* C8: on a Friday the selected week is the current week's Monday at every
\* time before 14:00 and next week's Monday (7 days later) at every time
\* from 14:00:00 on, 14:00 itself included.
C8_FridayCutoff ==
    (Selected /\ DayKey(now.date) = "friday") =>
        monday = IF MinuteOfDay(now) < 14 * 60
                 THEN MondayOfWeek(now.date)
                 ELSE MondayOfWeek(now.date) + 7

\* An update that started on a Friday at 14:00 exactly and selected next week.
C8_Witness ==
    /\ Selected
    /\ DayKey(now.date) = "friday"
    /\ now.hour = 14 /\ now.minute = 0
    /\ monday = now.date + 3

\* C9: on every day but Friday the selected week does not depend on the
\* time of day: Monday..Thursday give the current week's Monday, Saturday
\* and Sunday the Monday that follows the weekend.
C9_OtherDays ==
    (Selected /\ DayKey(now.date) # "friday") =>
        monday = IF DayKey(now.date) \in {"saturday", "sunday"}
                 THEN MondayOfWeek(now.date) + 7
                 ELSE MondayOfWeek(now.date)

\* An update that started on a Sunday morning and selected the next day.
C9_Witness ==
    /\ Selected
    /\ DayKey(now.date) = "sunday"
    /\ now.hour < 14
    /\ monday = now.date + 1

\* C10: for every date and time the selected anchor is a Monday, not before
\* the Monday of the date's week and at most 7 days after it.
C10_AnchorIsMonday ==
    Selected =>
        /\ DayKey(monday) = "monday"
        /\ monday >= MondayOfWeek(now.date)
        /\ monday <= MondayOfWeek(now.date) + 7

\* An update that started on a Saturday afternoon: the anchor is a Monday
\* after the date.
C10_Witness ==
    /\ Selected
    /\ DayKey(now.date) = "saturday"
    /\ now.hour >= 14
    /\ DayKey(monday) = "monday"
    /\ monday > now.date

\* ------------------------------------------------------- week coverage
\* Checked under Spec: either sensor, any number of update cycles.

LegacyWeekKeys == {"Monday", "Tuesday", "Wednesday", "Thursday", "Friday"}

\* The loop over the days has ended: the week record is assembled.
Assembled == pc = "close" \/ (pc = "idle" /\ Len(responses) = 5)

\* The calendar date a per-day record of the current sensor names.
DateOf(rec) == IF "date_iso" \in DOMAIN rec THEN rec.date_iso ELSE rec.date

\* The five day records of a dict are those of the week that starts on mon.
WeekOf(dict, mon) ==
    \A i \in 1 .. 5 :
        DateOf(dict[<<"monday", "tuesday", "wednesday", "thursday", "friday">>[i]])
            = IsoDate(mon + (i - 1))

\* C11: the week record a pass assembles has exactly five entries, keyed
\* Monday..Friday, the i-th being that of the date anchor Monday + (i - 1),
\* whatever the outcomes of the days, in both sensors; the exposed
\* attributes hold no day at all or the five days Monday..Friday of one
\* week, and no other day.
C11_FiveWeekdays ==
    /\ (Assembled /\ variant = "current") =>
          /\ DOMAIN week_data = WeekKeys
          /\ DayKey(monday) = "monday"
          /\ WeekOf(week_data, monday)
    /\ (Assembled /\ variant = "legacy") =>
          /\ DOMAIN week_data = LegacyWeekKeys
          /\ DayName(monday) = "Monday"
          /\ \A i \in 1 .. 5 :
                week_data[<<"Monday", "Tuesday", "Wednesday", "Thursday", "Friday">>[i]]
                    = LegacyDayList(responses[i])
    /\ variant = "current" =>
          /\ DOMAIN attrs \subseteq WeekKeys \cup {"last_updated", "last_error"}
          /\ DOMAIN attrs \cap WeekKeys # {} =>
                /\ WeekKeys \subseteq DOMAIN attrs
                /\ \E n \in LeanClock : WeekOf(attrs, RelevantMonday(n))
    /\ variant = "legacy" => DOMAIN attrs \in {{}, LegacyWeekKeys}

\* After a week with a menu on Monday and a failed Friday was exposed, a
\* later cycle failed: the five days of that week are still exposed.
C11_Witness ==
    /\ Current
    /\ pc = "idle"
    /\ "last_error" \in DOMAIN attrs
    /\ WeekKeys \subseteq DOMAIN attrs
    /\ attrs["monday"].available
    /\ "error" \in DOMAIN attrs["friday"]
    /\ attrs["friday"].date_iso = IsoDate(FirstDay - Weekday(FirstDay) + 4)

\* ---------------------------------------------------------- the request
\* Checked under SpecUrl: every customer group, every day requested.

\* The pieces of a character sequence between the occurrences of sep.
RECURSIVE SplitOn(_, _, _)
SplitOn(chars, sep, i) ==
    LET found == {j \in i .. Len(chars) : chars[j] = sep}
    IN  IF found = {} THEN <<SubSeq(chars, i, Len(chars))>>
        ELSE LET j == CHOOSE k \in found : \A l \in found : k <= l
             IN  <<SubSeq(chars, i, j - 1)>> \o SplitOn(chars, sep, j + 1)

\* The value of a parameter of the query string of a url: what follows
\* "name=" in the piece of the query that starts with it.
QueryValue(chars, name) ==
    LET query == SplitOn(chars, "?", 1)[2]
        named == SelectSeq(SplitOn(query, "&", 1),
                           LAMBDA piece : /\ Len(piece) > Len(name)
                                          /\ SubSeq(piece, 1, Len(name) + 1)
                                                = Append(name, "="))
    IN  IF named = <<>> THEN None
        ELSE Some(SubSeq(named[1], Len(name) + 2, Len(named[1])))

\* C12: the url requested for a day carries KundegruppeID equal to the
\* configured customer group id and millis equal to the value
\* _calculate_millis computes for that day, for every group and every
\* day: substituting the group id leaves the millis as computed.
C12_UrlCarriesGroupAndMillis ==
    (Current /\ url # <<>>) =>
        /\ QueryValue(url, <<"K", "u", "n", "d", "e", "g", "r", "u", "p", "p", "e", "I", "D">>)
              = Some(Digits(customer_group_id))
        /\ millis = CalculateMillis(Day)
        /\ QueryValue(url, <<"m", "i", "l", "l", "i", "s">>) = Some(millis)

\* ------------------------------------------------------- invalid bodies
\* Checked under SpecPayload: every body of a 200 response.

\* A 200 response whose body is not JSON, is JSON that is no object, or is
\* an object for the day whose section mapping is a list.
InvalidBody(resp, day) ==
    /\ resp.kind = "http"
    /\ resp.status = 200
    /\ \/ resp.body.json # "dict"
       \/ EchoesDate(resp, day) /\ resp.body.menu.t = "list"

\* C13: a day whose 200 response body is malformed JSON or JSON of an
\* unexpected shape (not an object) is recorded unavailable with an error
\* message, unlike a day that has no menu.
C13_InvalidBodyIsError ==
    \A i \in 1 .. Len(responses) :
        (Current /\ InvalidBody(responses[i], DayOf(i))) =>
            /\ Recorded(i)
            /\ ~RecordOf(i).available
            /\ "error" \in DOMAIN RecordOf(i)
            /\ RecordOf(i) # EmptyRecord(date_format, DayOf(i))

\* ------------------------------------------------- the exposed record
\* Checked under Spec: any number of update cycles.

\* The latest update cycle of the current sensor has ended, in total
\* failure or with a week record.
LastCycleFailed == Current /\ pc = "idle" /\ Len(responses) = 5 /\ ret = None
LastCycleSucceeded == Current /\ pc = "idle" /\ Len(responses) = 5 /\ ret # None

\* C14: after an update cycle that ended in total failure, whatever the
\* state of the sensor before it, the attributes contain last_error.
C14_FailureLeavesLastError == LastCycleFailed => "last_error" \in DOMAIN attrs

\* C15: after a successful update cycle the attributes are that cycle's
\* five day records and its last_updated timestamp and nothing else;
\* last_error is present only if the latest cycle failed.
C15_ReplacedWholesale ==
    LastCycleSucceeded =>
        /\ DOMAIN attrs = WeekKeys \cup {"last_updated"}
        /\ \A k \in WeekKeys : attrs[k] = week_data[k]
        /\ attrs["last_updated"] = IsoInstant(now)

\* --------------------------------------------------------- date fields
\* Checked under SpecWeek: one pass over every sequence of responses.

\* C16: every per-day record of a returned week record, the record of a
\* day flagged as a possible repeat included, has the same date fields:
\* "date" in the configured date_format and "date_iso", the ISO date.
C16_SameDateFields ==
    (PassDone /\ ret # None) =>
        \A i \in 1 .. 5 :
            /\ DOMAIN RecordOf(i) \cap {"date", "date_iso"} = {"date", "date_iso"}
            /\ RecordOf(i).date = FormatDate(date_format, DayOf(i))
            /\ RecordOf(i).date_iso = IsoDate(DayOf(i))

\* ---------------------------------------------------- pacing and order
\* Checked under SpecFailures: one pass of either variant.

\* The positions of the events of one kind in the log of the pass.
Positions(op) == {i \in 1 .. Len(events) : events[i].op = op}

\* C17: in a pass of the current sensor one delay follows the outcome of
\* each of the days Monday..Thursday, whether the day succeeded or failed,
\* and precedes the next request; every request but the first comes
\* straight after the delay that follows the previous day; no delay
\* follows Friday; a finished pass has slept exactly four times.
C17_Pacing ==
    Current =>
        /\ \A i \in Positions("outcome") :
              IF events[i].day < monday + 4
              THEN IF i = Len(events) THEN pc = "sleep"
                   ELSE events[i + 1] = SleepEvent(events[i].day)
              ELSE i = Len(events) /\ pc \in {"close", "idle"}
        /\ \A i \in Positions("sleep") :
              /\ i > 1 /\ events[i - 1] = OutcomeEvent(events[i].day)
              /\ i < Len(events) /\ events[i + 1] = GetEvent(events[i].day + 1)
        /\ \A i \in Positions("get") :
              i > 1 => events[i - 1] = SleepEvent(events[i].day - 1)
        /\ Assembled => Cardinality(Positions("sleep")) = 4

\* A finished pass in which Tuesday failed and the other days did not: a
\* delay after Monday, one after the failed Tuesday, four in all.
C17_Witness ==
    /\ PassDone
    /\ Failed(2)
    /\ \A i \in {1, 3, 4, 5} : ~Failed(i)
    /\ events[3] = SleepEvent(monday)
    /\ events[6] = SleepEvent(monday + 1)
    /\ Cardinality(Positions("sleep")) = 4
    /\ events[Len(events)] = OutcomeEvent(monday + 4)

\* The key a day's entry is stored under in either variant.
KeyOf(day) == IF variant = "current" THEN DayKey(day) ELSE DayName(day)

\* The events of one kind, in the order of the log.
EventsOf(op) == SelectSeq(events, LAMBDA e : e.op = op)

\* C18: in either variant the requests of a pass are those for Monday,
\* Tuesday, .. Friday in this order; at most one request is without its
\* outcome at any time; and when the request for a day is issued the
\* outcome of every day before it is recorded in the week.
C18_OneAtATime ==
    LET gets == EventsOf("get")
        outcomes == EventsOf("outcome")
    IN  /\ Len(gets) <= 5
        /\ \A k \in 1 .. Len(gets) : gets[k] = GetEvent(monday + (k - 1))
        /\ \A k \in 1 .. Len(outcomes) : outcomes[k] = OutcomeEvent(monday + (k - 1))
        /\ Len(gets) - Len(outcomes) \in {0, 1}
        /\ Len(gets) - Len(outcomes) = 1 <=> pc = "fetch"
        /\ Len(responses) = Len(outcomes)
        /\ DOMAIN week_data = {KeyOf(monday + (k - 1)) : k \in 1 .. Len(outcomes)}
        /\ \A i \in Positions("get") :
              i > 1 => \E j \in 1 .. (i - 1) : events[j] = OutcomeEvent(events[i].day - 1)

\* The legacy loop with Wednesday's request in flight: Monday's and
\* Tuesday's entries are written, Tuesday's being an error.
C18_Witness ==
    /\ variant = "legacy"
    /\ pc = "fetch"
    /\ events = <<GetEvent(monday), OutcomeEvent(monday), GetEvent(monday + 1),
                  OutcomeEvent(monday + 1), GetEvent(monday + 2)>>
    /\ DOMAIN week_data = {"Monday", "Tuesday"}
    /\ LegacyFetch(responses[2]).raised

\* ------------------------------------------------------------ no retry
\* Under SpecLive: any number of update cycles, each running update being
\* given its steps.

\* In the pass of the current sensor no day is requested twice or answered
\* twice, the days requested are the first days of the week, and a pass
\* that has left the loop has issued exactly the five requests
\* Monday..Friday and got one response to each.
ExactlyOnce ==
    Current =>
        /\ \A i, j \in Positions("get") : events[i].day = events[j].day => i = j
        /\ \A i, j \in Positions("outcome") : events[i].day = events[j].day => i = j
        /\ {events[i].day : i \in Positions("outcome")}
              \subseteq {events[i].day : i \in Positions("get")}
        /\ Len(responses) = Cardinality(Positions("outcome"))
        /\ Cardinality(Positions("get")) <= 5
        /\ Assembled =>
              /\ {events[i].day : i \in Positions("get")} = monday .. (monday + 4)
              /\ Len(responses) = 5

\* C19: in an update cycle each of the five days is requested exactly once,
\* whatever the outcomes, so that the cycle issues five requests; the
\* cycle then ends; a day that failed is requested again only after a
\* later cycle has started.
C19_NoRetry ==
    /\ []ExactlyOnce
    /\ (Current /\ pc # "idle") ~> (pc = "idle")

\* A later cycle requesting the Monday that an earlier cycle recorded as
\* failed with HTTP 403.
C19_Witness ==
    /\ Current
    /\ pc = "fetch"
    /\ events = <<GetEvent(monday)>>
    /\ "monday" \in DOMAIN attrs
    /\ "error" \in DOMAIN attrs["monday"]
    /\ attrs["monday"].error = "HTTP 403"
    /\ attrs["monday"].date_iso = IsoDate(monday)

\* ------------------------------------------------------ collected names
\* Under SpecPayload: Monday answered with a 200 response of any body.

\* The characters of a name between its first and its last character that
\* is no whitespace.
Blank(chars) == \A k \in 1 .. Len(chars) : chars[k] \in Whitespace
Trimmed(chars) ==
    LET inked == {k \in 1 .. Len(chars) : chars[k] \notin Whitespace}
    IN  IF inked = {} THEN <<>>
        ELSE SubSeq(chars, CHOOSE k \in inked : \A l \in inked : k <= l,
                           CHOOSE k \in inked : \A l \in inked : l <= k)

\* An entry with a usable name: an object whose Navn is a string that is
\* not blank.
Usable(item) ==
    /\ item.t = "dict"
    /\ item.navn # None
    /\ item.navn[1].t = "str"
    /\ ~Blank(item.navn[1].chars)

\* The trimmed names of the usable entries of one entry list, in entry order.
NamesOf(varer) ==
    LET usable == SelectSeq(varer, Usable)
    IN  [k \in 1 .. Len(usable) |-> Trimmed(usable[k].navn[1].chars)]

\* The same over the sections that are objects, in section order.
RECURSIVE NamesAcross(_)
NamesAcross(sections) ==
    IF sections = <<>> THEN <<>>
    ELSE (IF Head(sections).t = "dict" THEN NamesOf(Head(sections).varer) ELSE <<>>)
             \o NamesAcross(Tail(sections))

\* The payload has the documented structure: the section mapping is absent
\* or a mapping, and no Navn is a number.
Documented(menu) ==
    /\ menu.t # "list"
    /\ \A s \in 1 .. Len(menu.sections) :
          menu.sections[s].t = "dict" =>
              \A e \in 1 .. Len(menu.sections[s].varer) :
                  LET item == menu.sections[s].varer[e]
                  IN  (item.t = "dict" /\ item.navn # None) => item.navn[1].t # "int"

\* Every entry list of the mapping's sections is empty.
NoEntries(menu) ==
    \A s \in 1 .. Len(menu.sections) :
        menu.sections[s].t = "dict" => menu.sections[s].varer = <<>>

\* The i-th response was parsed into exactly the names of its payload, and
\* the day's record holds them.
ParsedAsNames(i) ==
    LET menu == responses[i].body.menu
    IN  /\ ParseDayData(responses[i].body, DayOf(i)) = Returned(NamesAcross(menu.sections))
        /\ Recorded(i)
        /\ "error" \notin DOMAIN RecordOf(i)
        /\ RecordOf(i).items = NamesAcross(menu.sections)
        /\ (menu.t = "absent" \/ NoEntries(menu)) => RecordOf(i).items = <<>>

DayRecordsExposed == WeekKeys \subseteq DOMAIN attrs

\* C21: once an update cycle has succeeded the sensor stays populated:
\* whatever cycles follow (success, total failure, an exception raised in
\* the update), the state is never set to "unavailable" or None and the
\* per-day records are never emptied; a populated sensor only ever moves to
\* a populated sensor.
C21_PopulatedAbsorbing ==
    [][(Current /\ Populated) =>
          /\ DayRecordsExposed
          /\ Populated'
          /\ DayRecordsExposed'
          /\ state' # state => (pc = "close" /\ ret' # None)]_vars

\* A sensor still populated after a cycle that failed on every day and,
\* later, a pass that an exception ended after its second request.
C21_Witness ==
    /\ Current
    /\ Populated
    /\ DayRecordsExposed
    /\ "last_error" \in DOMAIN attrs
    /\ pc = "idle"
    /\ Len(responses) = 2

\* ------------------------------------------------- independent passes
\* Under SpecOverlap: two callers, every interleaving of their invocations.

\* C22: invocations of _fetch_week_data share no mutable state: however
\* two passes overlap or follow each other, what each has assembled and
\* what it returns, duplicate notes included, is what the pass gives when
\* run alone on its anchor Monday and the responses to its own requests.
C22_IndependentPasses ==
    \A c \in Callers :
        frames[c].pc # "none" =>
            /\ frames[c].week_data
                  = FetchWeekData(date_format, frames[c].monday, frames[c].responses)
            /\ frames[c].pc = "returned" =>
                  /\ Len(frames[c].responses) = 5
                  /\ frames[c].ret
                        = WeekResult(FetchWeekData(date_format, frames[c].monday,
                                                   frames[c].responses))

\* Two passes in flight for different weeks: one has recorded a menu on
\* Monday and the same menu, noted as repeated, on Tuesday; the other has
\* recorded a menu on its Monday.
C22_Witness ==
    /\ frames["scheduled"].pc = "sleep"
    /\ Len(frames["scheduled"].responses) = 2
    /\ "note" \in DOMAIN frames["scheduled"].week_data["tuesday"]
    /\ frames["requested"].pc = "sleep"
    /\ Len(frames["requested"].responses) = 1
    /\ frames["requested"].previous_menu # None
    /\ frames["requested"].monday # frames["scheduled"].monday

\* ---------------------------------------------------- the state string
\* Under SpecDescription: cycles started on every date of the window.

\* The Mondays an update of the window can select.
AnchorMondays == {d \in (FirstDay - 6) .. (FirstDay + NumDays + 6) : DayKey(d) = "monday"}

\* The two descriptions of a week.
ThisWeekText(mon) == "This week (" \o FormatDate(date_format, mon) \o ")"
NextWeekText(mon) == "Next week (" \o FormatDate(date_format, mon) \o ")"

\* The date of the reading lies in the part of the week that shows the
\* current week: Monday to Thursday, and Friday before 14:00.
ShowsCurrentWeek ==
    \/ DayKey(now.date) \in {"monday", "tuesday", "wednesday", "thursday"}
    \/ DayKey(now.date) = "friday" /\ MinuteOfDay(now) < 14 * 60

\* C23: the exposed state is None (no cycle has completed), "unavailable"
\* or a week description; the description a successful cycle writes reads
\* "This week (...)" exactly when the cycle's anchor Monday is the Monday
\* of the week of the current date (Monday to Thursday, Friday before
\* 14:00) and "Next week (...)" otherwise.
C23_StateValues ==
    Current =>
        /\ \/ state = None
           \/ state = Some("unavailable")
           \/ \E mon \in AnchorMondays : state \in {Some(ThisWeekText(mon)), Some(NextWeekText(mon))}
        /\ (state = None /\ pc = "idle") => responses = <<>>
        /\ LastCycleSucceeded =>
              /\ (monday = MondayOfWeek(now.date)) <=> ShowsCurrentWeek
              /\ state = IF ShowsCurrentWeek
                         THEN Some(ThisWeekText(monday))
                         ELSE Some(NextWeekText(monday))

\* A cycle started on a Friday at 14:00 has succeeded and describes the
\* week after, while Monday's record of the week is exposed.
C23_Witness ==
    /\ LastCycleSucceeded
    /\ DayKey(now.date) = "friday"
    /\ MinuteOfDay(now) = 14 * 60
    /\ state = Some(NextWeekText(now.date + 3))
    /\ attrs["monday"].available

\* ------------------------------------------------- choosing the group
\* Under SpecFlow: every list of groups fetched, every value submitted.

\* The select_group step has been submitted a value its form offered.
OfferedSubmitted ==
    /\ flow.submitted # None
    /\ flow.submitted[1] \in GroupOptions(flow.customer_groups)

\* C24: once the user step has fetched a list of groups that is not
\* empty, a value the select_group form offers (a key of its options)
\* resolves to the fetched group of that id and the flow goes on to the
\* date_format step; the flow aborts with invalid_group only for a value
\* that was not offered; the entry created carries the id of the group
\* chosen.
C24_OfferedValueAdvances ==
    /\ OfferedSubmitted =>
          /\ flow.step \in {"date_format", "create_entry"}
          /\ flow.selected_group # None
          /\ \E i \in 1 .. Len(flow.customer_groups) :
                /\ flow.selected_group[1] = flow.customer_groups[i]
                /\ PyStrOf(flow.customer_groups[i].id) = flow.submitted[1]
    /\ flow.step = "abort" =>
          /\ flow.reason = Some("invalid_group")
          /\ ~OfferedSubmitted
    /\ flow.step = "create_entry" =>
          /\ flow.entry # None
          /\ flow.entry[1].customer_group_id = flow.selected_group[1].id

=============================================================================
